---- MODULE Spec2Model ----
(***************************************************************************)
(* Model of the price-check scheduler of discord-price-tracker             *)
(* (cogs/price_checker.py) and of the alert ledger it uses (database.py).  *)
(*                                                                         *)
(* Spec       the PriceChecker cog as it is wired: the scheduled loop,     *)
(*            the manual trigger, the tasks of each run and the two        *)
(*            semaphores.                                                  *)
(* SpecDb     the alert ledger of database.py (should_send_alert,          *)
(*            record_alert_sent, _reset_alert_state) called with the       *)
(*            parameters it declares, by callers that read a decision and  *)
(*            write it back later.                                         *)
(* SpecSend   _process_result and _send_alert of price_checker.py applied  *)
(*            to observations, against a ledger left in the SQLite file.   *)
(* SpecFair   Spec under the scheduling of the asyncio event loop.          *)
(* SpecExpand the expansion of tracking rows into task lists               *)
(*            (_prepare_walmart_tasks, _prepare_target_tasks).             *)
(* SpecZip    the users and user_zip_codes tables of database.py under the *)
(*            ZIP commands, update_user_store and the start-up migration.  *)
(* SpecTrack  the users and tracked_products tables under the track and    *)
(*            untrack commands, delete_user and the load of a run.         *)
(* SpecProbe  check_price of the two scrapers: the browser launch, the     *)
(*            retry loop and the way the call ends.                        *)
(***************************************************************************)
EXTENDS Integers, Sequences, FiniteSets, TLC

\* ---------------------------------------------------------------- bounds
\* Config.MAX_CONCURRENT_WALMART / Config.MAX_CONCURRENT_TARGET are read in
\* PriceChecker.__init__ but config.py sets neither: they are parameters here.
MaxConcurrentWalmart == 1
MaxConcurrentTarget == 1
\* Tasks created over the whole behaviour, and concurrent !forceprice commands.
MaxTasks == 2
MaxManual == 1
\* Rows of alert_history over a behaviour of SpecDb.
MaxHistory == 1
\* Results processed and alerts delivered over a behaviour of SpecSend.
MaxChecks == 2
MaxAlerts == 1
\* Tracking rows of a run, ZIP codes and pickup stores of a user in SpecExpand.
MaxTracking == 2
MaxZips == 2
MaxStores == 1
\* Rows ever inserted into users and into tracked_products (SpecZip, SpecTrack).
MaxUsers == 1
MaxTrackedIds == 2
\* check_price calls over a behaviour of SpecProbe.
MaxProbes == 2

\* ------------------------------------------------------------ value sets
NoPrice == -1
Threshold == 5000
Prices == {4498, 4499, 4500, 5001}

\* Instants (hours) at which the ledger is called: within the cooldown, at
\* its very end and past it. 24 * 3600 seconds in should_send_alert.
CooldownHours == 24
TimePoints == {0, 1, CooldownHours, CooldownHours + 1}

\* alert_states is keyed by (user_id, product_id, store_id, alert_type); one
\* user, product and store, both alert types.
AlertTypes == {"shipping", "pickup"}
NoRow == [price |-> NoPrice, at |-> -1]
NoDecision == [alert_type |-> "none", price |-> NoPrice, reset |-> FALSE]
NoCall == [alert_type |-> "none", price |-> NoPrice, row |-> NoRow,
           at |-> -1, result |-> FALSE]
\* Concurrent callers of the ledger.
Callers == {1, 2}
NoSend == [alert_type |-> "none", price |-> NoPrice,
           shipping_available |-> FALSE, pickup_available |-> FALSE]
NoOp == [op |-> "none", alert_type |-> "none", site |-> "none",
         error |-> FALSE, price |-> NoPrice, shipping_available |-> FALSE,
         pickup_available |-> FALSE, dispatched |-> FALSE]

Sites == {"walmart", "target"}
\* Run 0 is the tasks.loop body check_prices; 1..MaxManual are invocations of
\* the forceprice command, each its own coroutine.
Scheduled == 0
Runs == 0..MaxManual
TaskIds == 1..MaxTasks

Max(a, b) == IF a >= b THEN a ELSE b

\* PriceResult (scrapers/base_scraper.py), prices in integer cents.
PriceResult(err, price, ship, pick) ==
    [error |-> err, price |-> price, shipping_available |-> ship,
     pickup_available |-> pick]

\* What a probe hands back to the task: an error-carrying result, a result
\* without a price, or a priced one.
ProbeResults ==
    {PriceResult(TRUE, NoPrice, FALSE, FALSE),
     PriceResult(FALSE, NoPrice, FALSE, FALSE),
     PriceResult(FALSE, 4500, TRUE, FALSE)}

\* The result both scrapers build when every attempt has failed.
FailedResult == PriceResult(TRUE, NoPrice, FALSE, FALSE)

\* ZIP codes, products and thresholds the commands are called with.
ZipCodes == {"10001", "90210"}
Products == {1, 2}
Thresholds == {4000, 5000}
NoDbCall == [op |-> "none", user_id |-> 0, zip_code |-> "none",
             is_primary |-> FALSE, product_id |-> 0, id |-> 0,
             threshold |-> 0, found |-> FALSE, result |-> FALSE]
NoProbe == [site |-> "none", pc |-> "idle", attempt |-> 0,
            result |-> FailedResult]

VARIABLES
    is_running,           \* PriceChecker.is_running
    runPc,                \* per run: "idle", "gather" (awaiting asyncio.gather) or,
                          \* for the loop, "failed" (last iteration absorbed an exception)
    taskRun,              \* per task: the run that created it
    taskSite,             \* per task: "walmart" or "target"
    taskPc,               \* per task: free, new, init, wait, probe, done, raised, gone
    walmart_semaphore,    \* value of asyncio.Semaphore(max_concurrent_walmart)
    target_semaphore,     \* value of asyncio.Semaphore(max_concurrent_target)
    target_scraper,       \* "none", "created" (object assigned), "ready"
    concurrent_active,
    max_concurrent_used,
    checks_completed,
    checks_failed,
    alerts_sent,
    last_check,           \* FALSE while None, TRUE once a run has set it
    price_history,        \* rows appended by Database.log_price
    alert_states,         \* table alert_states: alert_type -> row or NoRow
    alert_history,        \* table alert_history (alert_type, price), in insertion order
    now,                  \* the clock, in hours
    pending,              \* per caller: the SEND decision it holds, if any
    last_call,            \* the should_send_alert call of the step just taken
    sending,              \* the notification whose delivery _send_alert awaits
    last_op,              \* the _process_result / _send_alert call of the step just taken
    tracking_data,        \* rows of get_all_active_tracking the run expands
    expanded,             \* how many of them the grouping loop has handled
    walmart_tasks,        \* task_data dicts prepared for Walmart
    target_tasks,         \* task_data dicts prepared for Target
    users,                \* table users: rows (id, zip_code, notifications_enabled)
    next_user_id,         \* the id AUTOINCREMENT hands to the next users row
    user_zip_codes,       \* table user_zip_codes, in insertion order
    tracked_products,     \* table tracked_products
    next_tracked_id,      \* the id AUTOINCREMENT hands to the next tracked_products row
    active_tracking,      \* rows get_all_active_tracking gave the latest run
    removed,              \* (user, product) pairs removed and not added again
    last_db,              \* the Database call of the step just taken
    api_key,              \* WalmartScraper.api_key is set
    browser,              \* TargetLocationScraper._browser is set
    probe,                \* the check_price call in progress
    probes                \* check_price calls made so far

vars == <<is_running, runPc, taskRun, taskSite, taskPc, walmart_semaphore,
          target_semaphore, target_scraper, concurrent_active,
          max_concurrent_used, checks_completed, checks_failed, alerts_sent,
          last_check, price_history, alert_states, alert_history, now,
          pending, last_call, sending, last_op, tracking_data, expanded,
          walmart_tasks, target_tasks, users, next_user_id, user_zip_codes,
          tracked_products, next_tracked_id, active_tracking, removed,
          last_db, api_key, browser, probe, probes>>

gateVars == <<walmart_semaphore, target_semaphore, concurrent_active,
              max_concurrent_used>>
statVars == <<checks_completed, checks_failed, alerts_sent, price_history>>
expandVars == <<tracking_data, expanded, walmart_tasks, target_tasks>>
storeVars == <<users, next_user_id, user_zip_codes, tracked_products,
               next_tracked_id, active_tracking, removed, last_db>>
probeVars == <<api_key, browser, probe, probes>>
checkerVars == <<is_running, runPc, taskRun, taskSite, taskPc, gateVars,
                 target_scraper, last_check, statVars, expandVars, storeVars,
                 probeVars>>
ledgerVars == <<alert_states, alert_history, now, pending, last_call>>
sendVars == <<sending, last_op>>

\* ------------------------------------------------------------------ Init
\* _init_database on a new file: CREATE TABLE IF NOT EXISTS leaves every
\* table empty.
StoreEmpty ==
    /\ users = {}
    /\ next_user_id = 1
    /\ user_zip_codes = <<>>
    /\ tracked_products = {}
    /\ next_tracked_id = 1
    /\ active_tracking = {}
    /\ removed = {}
    /\ last_db = NoDbCall

\* TargetLocationScraper.__init__ (self._browser = None); no probe running.
ProbeIdle ==
    /\ browser = FALSE
    /\ probe = NoProbe
    /\ probes = 0

\* PriceChecker.__init__
Init ==
    /\ is_running = FALSE
    /\ runPc = [r \in Runs |-> "idle"]
    /\ taskRun = [t \in TaskIds |-> Scheduled]
    /\ taskSite = [t \in TaskIds |-> "walmart"]
    /\ taskPc = [t \in TaskIds |-> "free"]
    /\ walmart_semaphore = MaxConcurrentWalmart
    /\ target_semaphore = MaxConcurrentTarget
    /\ target_scraper = "none"
    /\ concurrent_active = 0
    /\ max_concurrent_used = 0
    /\ checks_completed = 0
    /\ checks_failed = 0
    /\ alerts_sent = 0
    /\ last_check = FALSE
    /\ price_history = <<>>
    /\ alert_states = [a \in AlertTypes |-> NoRow]
    /\ alert_history = <<>>
    /\ now = 0
    /\ pending = [c \in Callers |-> NoDecision]
    /\ last_call = NoCall
    /\ sending = NoSend
    /\ last_op = NoOp
    /\ tracking_data = <<>>
    /\ expanded = 0
    /\ walmart_tasks = <<>>
    /\ target_tasks = <<>>
    /\ StoreEmpty
    /\ api_key = TRUE
    /\ ProbeIdle

\* ------------------------------------------------------------- the runs
FreeTasks == {t \in TaskIds : taskPc[t] = "free"}
TasksOf(r) == {t \in TaskIds : taskPc[t] \notin {"free", "gone"} /\ taskRun[t] = r}
\* asyncio.gather(..., return_exceptions=True) takes a task as settled when
\* it has returned ("done") or ended by an exception it did not catch.
Settled == {"done", "raised"}
ActiveRuns == {r \in Runs : runPc[r] = "gather"}

\* The statistics zeroed with the performance counters.
run_start_stats_Zeroed(count) == 0

\* "# Reset performance counters": _run_price_checks assigns 0 to
\* concurrent_active and max_concurrent_used only; checks_completed,
\* checks_failed and alerts_sent keep the value __init__ or the tasks gave.
run_start_stats(count) == count

\* _run_price_checks up to its await of asyncio.gather: the counters are
\* reset, the tracking rows are loaded and one task is created per check
\* (nW Walmart checks, nT Target checks). With no tracking rows it returns
\* at once. Returns TRUE when the run goes on to gather.
run_price_checks(r, nW, nT) ==
    LET base == MaxTasks - Cardinality(FreeTasks)
        wIds == (base + 1)..(base + nW)
        tIds == (base + nW + 1)..(base + nW + nT)
    IN  /\ nW + nT <= Cardinality(FreeTasks)
        /\ concurrent_active' = 0
        /\ max_concurrent_used' = 0
        /\ checks_completed' = run_start_stats(checks_completed)
        /\ checks_failed' = run_start_stats(checks_failed)
        /\ alerts_sent' = run_start_stats(alerts_sent)
        /\ taskRun' = [t \in TaskIds |->
                         IF t \in wIds \cup tIds THEN r ELSE taskRun[t]]
        /\ taskSite' = [t \in TaskIds |->
                         IF t \in wIds THEN "walmart"
                         ELSE IF t \in tIds THEN "target" ELSE taskSite[t]]
        /\ taskPc' = [t \in TaskIds |->
                         IF t \in wIds THEN "wait"
                         ELSE IF t \in tIds THEN "new" ELSE taskPc[t]]
        /\ runPc' = [runPc EXCEPT ![r] = IF nW + nT > 0 THEN "gather" ELSE "idle"]

\* The guard left out: a start is attempted whatever the flag says.
AlreadyRunning_Ignored(flag) == FALSE

\* "if self.is_running:" at the head of check_prices and force_price_check.
AlreadyRunning(flag) == flag

\* is_running reset only when the run returned normally.
is_running_after_NoFinally(raised) == raised

\* "finally: self.is_running = False" of check_prices: the value of
\* is_running once the body is left, normally or by an exception.
is_running_after(raised) == FALSE

\* _run_price_checks raising before any task exists (a storage error in
\* get_all_active_tracking or in get_user_zip_codes): the counters have
\* been reset and nothing else has happened. All of this code runs before
\* the first await of the run.
run_price_checks_raises ==
    /\ concurrent_active' = 0
    /\ max_concurrent_used' = 0
    /\ checks_completed' = run_start_stats(checks_completed)
    /\ checks_failed' = run_start_stats(checks_failed)
    /\ alerts_sent' = run_start_stats(alerts_sent)
    /\ UNCHANGED <<taskRun, taskSite, taskPc, expandVars,
                   storeVars, probeVars>>

\* check_prices: one iteration of the tasks.loop body. The loop awaits the
\* body, so an iteration starts only when the previous one has returned.
check_prices ==
    /\ runPc[Scheduled] \in {"idle", "failed"}
    /\ IF AlreadyRunning(is_running)
       THEN UNCHANGED vars
       ELSE /\ \/ \E nW, nT \in 0..MaxTasks :
                    /\ run_price_checks(Scheduled, nW, nT)
                    \* is_running = True; the finally clause resets it
                    \* when the run returns at once
                    /\ is_running' = IF nW + nT > 0 THEN TRUE
                                     ELSE is_running_after(FALSE)
               \/ /\ run_price_checks_raises
                  \* except Exception: logged; finally: is_running reset
                  /\ is_running' = is_running_after(TRUE)
                  /\ runPc' = [runPc EXCEPT ![Scheduled] = "failed"]
            /\ UNCHANGED <<walmart_semaphore, target_semaphore,
                           target_scraper, last_check, price_history, ledgerVars, sendVars, expandVars,
                   storeVars, probeVars>>

\* force_price_check: the forceprice command; it reads is_running and never
\* writes it.
force_price_check(m) ==
    /\ m # Scheduled
    /\ runPc[m] = "idle"
    \* invocations are interchangeable: a new one takes the lowest idle slot
    /\ \A k \in 1..(m - 1) : runPc[k] # "idle"
    /\ IF AlreadyRunning(is_running)
       THEN UNCHANGED vars
       \* a run that raises before its tasks exist leaves the state of a run
       \* without tracking rows; the exception goes to the command framework
       ELSE \E nW, nT \in 0..MaxTasks :
              /\ run_price_checks(m, nW, nT)
              /\ UNCHANGED <<is_running, walmart_semaphore, target_semaphore,
                             target_scraper, last_check, price_history, ledgerVars, sendVars, expandVars,
                   storeVars, probeVars>>

\* The rest of _run_price_checks once gather has returned, and for the
\* scheduled run the finally clause of check_prices.
run_finished(r) ==
    /\ runPc[r] = "gather"
    /\ \A t \in TasksOf(r) : taskPc[t] \in Settled
    /\ runPc' = [runPc EXCEPT ![r] = "idle"]
    /\ last_check' = TRUE
    /\ is_running' = IF r = Scheduled THEN is_running_after(FALSE) ELSE is_running
    \* the task objects of the run are dropped; their ids are not used again
    /\ taskRun' = [t \in TaskIds |-> IF t \in TasksOf(r) THEN Scheduled ELSE taskRun[t]]
    /\ taskSite' = [t \in TaskIds |-> IF t \in TasksOf(r) THEN "walmart" ELSE taskSite[t]]
    /\ taskPc' = [t \in TaskIds |-> IF t \in TasksOf(r) THEN "gone" ELSE taskPc[t]]
    /\ UNCHANGED <<gateVars, target_scraper, statVars, ledgerVars, sendVars, expandVars,
                   storeVars, probeVars>>

\* ------------------------------------------------------------- the gate
\* A gate that never makes a task wait.
CanAcquire_NeverWaits(value) == TRUE

\* asyncio.Semaphore.acquire: takes a slot when the value is positive,
\* waits otherwise.
CanAcquire(value) == value > 0

\* A slot that is not handed back.
Release_Leaks(value) == value

\* asyncio.Semaphore.release at the exit of "async with".
Release(value) == value + 1

\* "async with semaphore" entry and the two counter updates after it.
EnterGate ==
    /\ concurrent_active' = concurrent_active + 1
    /\ max_concurrent_used' = Max(max_concurrent_used, concurrent_active + 1)

\* _run_walmart_check_with_semaphore up to the await of check_price.
walmart_acquire(t) ==
    /\ taskPc[t] = "wait" /\ taskSite[t] = "walmart"
    /\ CanAcquire(walmart_semaphore)
    /\ walmart_semaphore' = walmart_semaphore - 1
    /\ EnterGate
    /\ taskPc' = [taskPc EXCEPT ![t] = "probe"]
    /\ UNCHANGED <<is_running, runPc, taskRun, taskSite, target_semaphore,
                   target_scraper, last_check, statVars, ledgerVars, sendVars, expandVars,
                   storeVars, probeVars>>

\* _run_target_check_with_semaphore, the lazy creation of the scraper: the
\* object is assigned before initialize() is awaited.
target_start(t) ==
    /\ taskPc[t] = "new" /\ taskSite[t] = "target"
    /\ IF target_scraper = "none"
       THEN /\ target_scraper' = "created"
            /\ taskPc' = [taskPc EXCEPT ![t] = "init"]
       ELSE /\ taskPc' = [taskPc EXCEPT ![t] = "wait"]
            /\ UNCHANGED target_scraper
    /\ UNCHANGED <<is_running, runPc, taskRun, taskSite, gateVars,
                   last_check, statVars, ledgerVars, sendVars, expandVars,
                   storeVars, probeVars>>

\* TargetLocationScraper.initialize returns.
target_initialized(t) ==
    /\ taskPc[t] = "init"
    /\ target_scraper' = "ready"
    /\ taskPc' = [taskPc EXCEPT ![t] = "wait"]
    /\ UNCHANGED <<is_running, runPc, taskRun, taskSite, gateVars,
                   last_check, statVars, ledgerVars, sendVars, expandVars,
                   storeVars, probeVars>>

\* TargetLocationScraper.initialize raises (the browser does not launch):
\* the await is outside the task's try, so the exception ends the task and
\* gather keeps it as the task's result. target_scraper stays assigned.
target_initialize_raises(t) ==
    /\ taskPc[t] = "init"
    /\ taskPc' = [taskPc EXCEPT ![t] = "raised"]
    /\ UNCHANGED <<is_running, runPc, taskRun, taskSite, gateVars,
                   target_scraper, last_check, statVars, ledgerVars, sendVars, expandVars,
                   storeVars, probeVars>>

target_acquire(t) ==
    /\ taskPc[t] = "wait" /\ taskSite[t] = "target"
    /\ CanAcquire(target_semaphore)
    /\ target_semaphore' = target_semaphore - 1
    /\ EnterGate
    /\ taskPc' = [taskPc EXCEPT ![t] = "probe"]
    /\ UNCHANGED <<is_running, runPc, taskRun, taskSite, walmart_semaphore,
                   target_scraper, last_check, statVars, ledgerVars, sendVars, expandVars,
                   storeVars, probeVars>>

\* ------------------------------------------------- processing a result
\* Parameters Database.should_send_alert declares after self, and arguments
\* _process_result passes to it.
should_send_alert_params == 6
should_send_alert_args == 7

\* A Python call binds only when the positional arguments fit the declared
\* parameters; otherwise it raises TypeError before the body runs.
CallBinds(nargs, nparams) == nargs = nparams

\* "if result.error is not None"
scraper_failed_Never(res) == FALSE
scraper_failed(res) == res.error

\* "if result.price is not None"
price_found_Always(res) == TRUE
price_found(res) == res.price # NoPrice

\* _process_result followed by the except and finally clauses of the task:
\* the effect on the counters and on price_history of one probe result.
process_result(res) ==
    IF scraper_failed(res)
    THEN /\ checks_failed' = checks_failed + 1
         /\ UNCHANGED <<checks_completed, alerts_sent, price_history>>
    ELSE /\ checks_completed' = checks_completed + 1
         /\ IF price_found(res)
            THEN /\ price_history' = Append(price_history, res)
                 \* should_send_alert(...) does not bind: TypeError, caught
                 \* by the task's "except Exception"
                 /\ checks_failed' =
                       IF CallBinds(should_send_alert_args, should_send_alert_params)
                       THEN checks_failed ELSE checks_failed + 1
            ELSE UNCHANGED <<checks_failed, price_history>>
         /\ UNCHANGED alerts_sent

\* "finally: self.concurrent_active -= 1" and the exit of "async with".
LeaveGate(t) ==
    /\ concurrent_active' = concurrent_active - 1
    /\ IF taskSite[t] = "walmart"
       THEN /\ walmart_semaphore' = Release(walmart_semaphore)
            /\ UNCHANGED target_semaphore
       ELSE /\ target_semaphore' = Release(target_semaphore)
            /\ UNCHANGED walmart_semaphore

\* The probe returns; the task processes the result, leaves the gate and ends.
probe_returns(t) ==
    /\ taskPc[t] = "probe"
    /\ \E res \in ProbeResults : process_result(res)
    /\ LeaveGate(t)
    \* Target's check_price has awaited initialize() before it probed
    /\ target_scraper' = IF taskSite[t] = "target" THEN "ready" ELSE target_scraper
    /\ taskPc' = [taskPc EXCEPT ![t] = "done"]
    /\ UNCHANGED <<is_running, runPc, taskRun, taskSite,
                   max_concurrent_used, last_check, ledgerVars, sendVars, expandVars,
                   storeVars, probeVars>>

\* TargetLocationScraper.check_price raises: its "await self.initialize()"
\* is outside its try, and runs the launch when no browser is up yet. The
\* task's except clause counts a failed check. (WalmartScraper.check_price
\* catches every exception of its attempts.)
probe_raises(t) ==
    /\ taskPc[t] = "probe" /\ taskSite[t] = "target"
    /\ target_scraper # "ready"
    /\ checks_failed' = checks_failed + 1
    /\ LeaveGate(t)
    /\ taskPc' = [taskPc EXCEPT ![t] = "done"]
    /\ UNCHANGED <<is_running, runPc, taskRun, taskSite, target_scraper,
                   max_concurrent_used, last_check, checks_completed,
                   alerts_sent, price_history, ledgerVars, sendVars, expandVars,
                   storeVars, probeVars>>

Next ==
    \/ check_prices
    \/ \E m \in Runs : force_price_check(m)
    \/ \E r \in Runs : run_finished(r)
    \/ \E t \in TaskIds : walmart_acquire(t)
    \/ \E t \in TaskIds : target_start(t)
    \/ \E t \in TaskIds : target_initialized(t)
    \/ \E t \in TaskIds : target_initialize_raises(t)
    \/ \E t \in TaskIds : target_acquire(t)
    \/ \E t \in TaskIds : probe_raises(t)
    \/ \E t \in TaskIds : probe_returns(t)

Spec == Init /\ [][Next]_vars

\* The scheduling the event loop gives: a started coroutine runs to its
\* next await, every awaited call (browser launch, probe) returns or raises,
\* gather returns once its tasks have settled, and asyncio.Semaphore wakes
\* a waiter when a slot is free, so a task that waits while a slot stays
\* free gets it.
Fairness ==
    /\ \A t \in TaskIds :
          /\ WF_vars(target_start(t))
          /\ WF_vars(target_initialized(t) \/ target_initialize_raises(t))
          /\ WF_vars(walmart_acquire(t))
          /\ WF_vars(target_acquire(t))
          /\ WF_vars(probe_returns(t) \/ probe_raises(t))
    /\ \A r \in Runs : WF_vars(run_finished(r))

SpecFair == Spec /\ Fairness

\* ------------------------------------------------------- the alert ledger
Abs(x) == IF x < 0 THEN -x ELSE x

\* Pairs of prices one cent apart whose difference as Python floats
\* (IEEE-754 binary64, prices in dollars) comes out above 0.01:
\* abs(44.99 - 44.98) = 0.010000000000005116, abs(45.00 - 44.99) =
\* 0.00999999999999801.
OneCentAboveTolerance == {{4498, 4499}}

\* abs(current_price - last_alert_price) > 0.01, on floats.
PriceDiffers(current_price, last_alert_price) ==
    IF Abs(current_price - last_alert_price) = 1
    THEN {current_price, last_alert_price} \in OneCentAboveTolerance
    ELSE Abs(current_price - last_alert_price) > 1

\* time_diff.total_seconds() > 24 * 3600
CooldownElapsed(current_time, last_alert_at) ==
    current_time - last_alert_at > CooldownHours

\* Database._reset_alert_state: DELETE of the row of the tuple.
reset_alert_state(states, a) == [states EXCEPT ![a] = NoRow]

\* Database.should_send_alert: the value returned and the table afterwards.
should_send_alert(states, a, current_price, threshold, current_time) ==
    IF current_price > threshold
    THEN [result |-> FALSE, states |-> reset_alert_state(states, a)]
    ELSE IF states[a] = NoRow
    THEN [result |-> TRUE, states |-> states]
    ELSE IF PriceDiffers(current_price, states[a].price)
    THEN [result |-> TRUE, states |-> states]
    ELSE IF CooldownElapsed(current_time, states[a].at)
    THEN [result |-> TRUE, states |-> states]
    ELSE [result |-> FALSE, states |-> states]

\* The state row written with no history row.
record_alert_sent_StateOnly(states, history, a, price, current_time) ==
    [history |-> history,
     states |-> [states EXCEPT ![a] = [price |-> price, at |-> current_time]]]

\* Database.record_alert_sent: INSERT into alert_history and INSERT OR
\* REPLACE into alert_states, in one transaction.
record_alert_sent(states, history, a, price, current_time) ==
    [history |-> Append(history, [alert_type |-> a, price |-> price]),
     states |-> [states EXCEPT ![a] = [price |-> price, at |-> current_time]]]

\* A caller evaluates an observation of price p for tuple a against the
\* threshold. A SEND decision stays with the caller until it writes it back;
\* a reset of the tuple marks the decisions taken before it.
db_should_send_alert(c, a, p) ==
    /\ pending[c] = NoDecision
    \* callers are interchangeable: the lowest free one makes the call
    /\ \A d \in Callers : d < c => pending[d] # NoDecision
    /\ LET r == should_send_alert(alert_states, a, p, Threshold, now)
       IN  /\ alert_states' = r.states
           /\ last_call' = [alert_type |-> a, price |-> p,
                            row |-> alert_states[a], at |-> now,
                            result |-> r.result]
           /\ pending' = [d \in Callers |->
                IF d = c
                THEN IF r.result
                     THEN [alert_type |-> a, price |-> p, reset |-> FALSE]
                     ELSE NoDecision
                ELSE IF p > Threshold /\ pending[d].alert_type = a
                     THEN [pending[d] EXCEPT !.reset = TRUE]
                     ELSE pending[d]]
    /\ UNCHANGED <<alert_history, now, checkerVars, sendVars>>

\* The caller writes its decision back once the notification is out.
db_record_alert_sent(c) ==
    /\ pending[c] # NoDecision
    /\ Len(alert_history) < MaxHistory
    /\ LET r == record_alert_sent(alert_states, alert_history,
                                  pending[c].alert_type, pending[c].price, now)
       IN  /\ alert_states' = r.states
           /\ alert_history' = r.history
    /\ pending' = [pending EXCEPT ![c] = NoDecision]
    /\ last_call' = NoCall
    /\ UNCHANGED <<now, checkerVars, sendVars>>

\* The transaction left as it stood when the statement failed.
rollback_KeepsPartial(before, partial) == partial

\* "with self._get_connection() as conn:": Connection.__exit__ rolls the
\* open transaction back when the block raises, and commits otherwise.
rollback(before, partial) == before

\* record_alert_sent raises sqlite3.Error: at its first statement, or at
\* the second with the alert_history row already inserted. The exception
\* reaches the task's "except Exception".
db_record_alert_fails(c, executed) ==
    /\ pending[c] # NoDecision
    /\ Len(alert_history) <= MaxHistory
    /\ LET before == [states |-> alert_states, history |-> alert_history]
           partial == [states |-> alert_states,
                       history |->
                          IF executed = 0 THEN alert_history
                          ELSE Append(alert_history,
                                      [alert_type |-> pending[c].alert_type,
                                       price |-> pending[c].price])]
           r == rollback(before, partial)
       IN  /\ alert_states' = r.states
           /\ alert_history' = r.history
    /\ pending' = [pending EXCEPT ![c] = NoDecision]
    /\ last_call' = [NoCall EXCEPT !.alert_type = "failed"]
    /\ UNCHANGED <<now, checkerVars, sendVars>>

\* The caller gives its decision up without writing (nothing was sent).
db_no_record(c) ==
    /\ pending[c] # NoDecision
    /\ pending' = [pending EXCEPT ![c] = NoDecision]
    /\ last_call' = NoCall
    /\ UNCHANGED <<alert_states, alert_history, now, checkerVars, sendVars>>

\* Time passes.
tick ==
    /\ \E t \in TimePoints : t > now /\ now' = t
    /\ last_call' = NoCall
    /\ UNCHANGED <<alert_states, alert_history, pending, checkerVars, sendVars>>

NextDb ==
    \/ \E c \in Callers, a \in AlertTypes, p \in Prices : db_should_send_alert(c, a, p)
    \/ \E c \in Callers : db_record_alert_sent(c)
    \/ \E c \in Callers, executed \in 0..1 : db_record_alert_fails(c, executed)
    \/ \E c \in Callers : db_no_record(c)
    \/ tick

SpecDb == Init /\ [][NextDb]_vars

\* ------------------------------------------- _send_alert, _process_result
\* Observations handed to _process_result and _send_alert: a price at or
\* above the threshold side, with either availability flag.
Observations ==
    {PriceResult(FALSE, p, s, k) : p \in {4500, 5001}, s \in BOOLEAN, k \in BOOLEAN}

\* Ledgers the SQLite file may hold when the process starts.
StoredLedgers == [AlertTypes -> {NoRow, [price |-> 4500, at |-> 0]}]

\* Parameters Database.record_alert_sent declares after self, and arguments
\* _send_alert passes to it.
record_alert_sent_params == 5
record_alert_sent_args == 6

\* availability = result.shipping_available if alert_type == 'shipping'
\*                else result.pickup_available
availability(alert_type, res) ==
    IF alert_type = "shipping" THEN res.shipping_available
    ELSE res.pickup_available

\* The gate left open for every alert the channel supports.
send_alert_gate_Ungated(alert_type, res, site) ==
    alert_type = "shipping" \/ site = "walmart"

\* The gate testing the flag of the other alert type.
send_alert_gate_OtherFlag(alert_type, res, site) ==
    IF alert_type = "shipping" THEN res.pickup_available
    ELSE IF alert_type = "pickup" /\ site = "walmart" THEN res.shipping_available
    ELSE FALSE

\* _send_alert, the availability gate: whether a notification goes out.
\* A pickup alert for a product that is not Walmart's takes neither branch.
send_alert_gate(alert_type, res, site) ==
    IF alert_type = "shipping" THEN res.shipping_available
    ELSE IF alert_type = "pickup" /\ site = "walmart" THEN res.pickup_available
    ELSE FALSE

OpOf(op, a, res, site, dispatched) ==
    [op |-> op, alert_type |-> a, site |-> site, error |-> res.error,
     price |-> res.price,
     shipping_available |-> res.shipping_available,
     pickup_available |-> res.pickup_available, dispatched |-> dispatched]

\* _send_alert up to the await of dm_alerts.send_shipping_alert /
\* send_pickup_alert: it returns when the gate is closed, and otherwise
\* hands the notification to the channel.
send_alert(a, res, site) ==
    /\ sending = NoSend
    \* _process_result calls it for a price at or below the threshold
    /\ res.price <= Threshold
    /\ alerts_sent < MaxAlerts
    /\ IF send_alert_gate(a, res, site)
       THEN sending' = [alert_type |-> a, price |-> res.price,
                        shipping_available |-> res.shipping_available,
                        pickup_available |-> res.pickup_available]
       ELSE UNCHANGED sending
    /\ last_op' = OpOf("send_alert", a, res, site, send_alert_gate(a, res, site))
    /\ UNCHANGED <<checkerVars, ledgerVars>>

\* The ledger written whatever the channel answered.
records_alert_Always(success) == TRUE

\* "if success: ... self.db.record_alert_sent(...)": the write takes effect
\* when the channel reported success and the call binds.
records_alert(success) ==
    success /\ CallBinds(record_alert_sent_args, record_alert_sent_params)

\* The channel answers: on success alerts_sent is incremented and
\* record_alert_sent is called.
send_alert_returns(success) ==
    /\ sending # NoSend
    /\ sending' = NoSend
    /\ last_op' = OpOf(IF success THEN "delivered" ELSE "undelivered",
                       sending.alert_type,
                       PriceResult(FALSE, sending.price,
                                   sending.shipping_available,
                                   sending.pickup_available),
                       "none", FALSE)
    /\ alerts_sent' = IF success THEN alerts_sent + 1 ELSE alerts_sent
    /\ IF records_alert(success)
       THEN LET r == record_alert_sent(alert_states, alert_history,
                                       sending.alert_type, sending.price, now)
            IN  /\ alert_states' = r.states
                /\ alert_history' = r.history
       ELSE UNCHANGED <<alert_states, alert_history>>
    /\ UNCHANGED <<is_running, runPc, taskRun, taskSite, taskPc, gateVars,
                   target_scraper, last_check, checks_completed, checks_failed,
                   price_history, now, pending, last_call, expandVars,
                   storeVars, probeVars>>

\* _process_result applied to one observation of a tuple.
call_process_result(a, res) ==
    /\ checks_completed < MaxChecks
    /\ checks_failed < MaxChecks
    /\ process_result(res)
    /\ last_op' = OpOf("process_result", a, res, "walmart", FALSE)
    /\ UNCHANGED <<is_running, runPc, taskRun, taskSite, taskPc, gateVars,
                   target_scraper, last_check, ledgerVars, sending, expandVars,
                   storeVars, probeVars>>

InitSend ==
    /\ is_running = FALSE
    /\ runPc = [r \in Runs |-> "idle"]
    /\ taskRun = [t \in TaskIds |-> Scheduled]
    /\ taskSite = [t \in TaskIds |-> "walmart"]
    /\ taskPc = [t \in TaskIds |-> "free"]
    /\ walmart_semaphore = MaxConcurrentWalmart
    /\ target_semaphore = MaxConcurrentTarget
    /\ target_scraper = "none"
    /\ concurrent_active = 0
    /\ max_concurrent_used = 0
    /\ checks_completed = 0
    /\ checks_failed = 0
    /\ alerts_sent = 0
    /\ last_check = FALSE
    /\ price_history = <<>>
    /\ alert_states \in StoredLedgers
    /\ alert_history = <<>>
    /\ now \in {1, CooldownHours + 1}
    /\ pending = [c \in Callers |-> NoDecision]
    /\ last_call = NoCall
    /\ sending = NoSend
    /\ last_op = NoOp
    /\ tracking_data = <<>>
    /\ expanded = 0
    /\ walmart_tasks = <<>>
    /\ target_tasks = <<>>
    /\ StoreEmpty
    /\ api_key = TRUE
    /\ ProbeIdle

NextSend ==
    \/ \E a \in AlertTypes, res \in Observations \cup ProbeResults :
          call_process_result(a, res)
    \/ \E a \in AlertTypes, res \in Observations, site \in Sites :
          send_alert(a, res, site)
    \/ \E success \in BOOLEAN : send_alert_returns(success)

SpecSend == InitSend /\ [][NextSend]_vars

\* ---------------------------------------------------- the task expansion
\* A row of get_all_active_tracking, as far as the expansion reads it: the
\* product's site, the rows of user_zip_codes of the user (numbered from 1)
\* and data['pickup_stores'] (numbered from 1).
TrackingRows ==
    [site : Sites, zips : 0..MaxZips, pickup_stores : 0..MaxStores]

\* The ZIP codes taken as they are, without the primary one standing in.
user_zips_NoFallback(zips) == [k \in 1..zips |-> k]

\* user_zips = self.db.get_user_zip_codes(user.id), and when there is none
\* the single entry built from user.zip_code (written 0, label 'Primary').
user_zips(zips) == IF zips = 0 THEN <<0>> ELSE [k \in 1..zips |-> k]

\* _prepare_walmart_tasks: a shipping task per ZIP, then a pickup task per
\* pickup store. req is the row the tasks carry in task_data['data'].
prepare_walmart_tasks(req, data) ==
    LET zs == user_zips(data.zips)
    IN  [k \in 1..Len(zs) |->
            [type |-> "walmart_shipping", data |-> req, place |-> zs[k]]]
        \o [k \in 1..data.pickup_stores |->
            [type |-> "walmart_pickup", data |-> req, place |-> k]]

\* _prepare_target_tasks: a shipping task per ZIP.
prepare_target_tasks(req, data) ==
    LET zs == user_zips(data.zips)
    IN  [k \in 1..Len(zs) |->
            [type |-> "target_shipping", data |-> req, place |-> zs[k]]]

\* The alert type a task hands to _process_result.
alert_type_of(task) ==
    IF task.type = "walmart_pickup" THEN "pickup" ELSE "shipping"

\* One turn of the grouping loop of _run_price_checks.
prepare_next ==
    /\ expanded < Len(tracking_data)
    /\ expanded' = expanded + 1
    /\ LET data == tracking_data[expanded + 1]
       IN  IF data.site = "walmart"
           THEN /\ walmart_tasks' =
                      walmart_tasks \o prepare_walmart_tasks(expanded + 1, data)
                /\ UNCHANGED target_tasks
           ELSE /\ target_tasks' =
                      target_tasks \o prepare_target_tasks(expanded + 1, data)
                /\ UNCHANGED walmart_tasks
    /\ UNCHANGED <<tracking_data, is_running, runPc, taskRun, taskSite, taskPc,
                   gateVars, target_scraper, last_check, statVars, ledgerVars,
                   sendVars, storeVars, probeVars>>

InitExpand ==
    /\ is_running = FALSE
    /\ runPc = [r \in Runs |-> "idle"]
    /\ taskRun = [t \in TaskIds |-> Scheduled]
    /\ taskSite = [t \in TaskIds |-> "walmart"]
    /\ taskPc = [t \in TaskIds |-> "free"]
    /\ walmart_semaphore = MaxConcurrentWalmart
    /\ target_semaphore = MaxConcurrentTarget
    /\ target_scraper = "none"
    /\ concurrent_active = 0
    /\ max_concurrent_used = 0
    /\ checks_completed = 0
    /\ checks_failed = 0
    /\ alerts_sent = 0
    /\ last_check = FALSE
    /\ price_history = <<>>
    /\ alert_states = [a \in AlertTypes |-> NoRow]
    /\ alert_history = <<>>
    /\ now = 0
    /\ pending = [c \in Callers |-> NoDecision]
    /\ last_call = NoCall
    /\ sending = NoSend
    /\ last_op = NoOp
    /\ \E n \in 0..MaxTracking : tracking_data \in [1..n -> TrackingRows]
    /\ expanded = 0
    /\ walmart_tasks = <<>>
    /\ target_tasks = <<>>
    /\ StoreEmpty
    /\ api_key = TRUE
    /\ ProbeIdle

NextExpand == prepare_next

SpecExpand == InitExpand /\ [][NextExpand]_vars

\* ------------------------------------------------------------ the store
\* A Database call as last_db records it.
DbCall(op, u, z, is_primary, p, id, th, found, result) ==
    [op |-> op, user_id |-> u, zip_code |-> z, is_primary |-> is_primary,
     product_id |-> p, id |-> id, threshold |-> th, found |-> found,
     result |-> result]

\* _get_connection opens the file without "PRAGMA foreign_keys = ON", so
\* SQLite does not enforce the FOREIGN KEY ... ON DELETE CASCADE clauses.
foreign_keys == FALSE

\* Users whose row is in the table.
UserIdsOf(us) == {r.id : r \in us}

\* "UPDATE users SET zip_code = ? WHERE id = ?"
set_user_zip(us, u, z) ==
    {IF r.id = u THEN [r EXCEPT !.zip_code = z] ELSE r : r \in us}

\* Rows of user_zip_codes with the key (user_id, zip_code).
has_zip(zips, u, z) ==
    \E i \in 1..Len(zips) : zips[i].user_id = u /\ zips[i].zip_code = z
zip_row(zips, u, z) ==
    zips[CHOOSE i \in 1..Len(zips) : zips[i].user_id = u /\ zips[i].zip_code = z]
without_zip(zips, u, z) ==
    SelectSeq(zips, LAMBDA r : ~(r.user_id = u /\ r.zip_code = z))

\* "UPDATE user_zip_codes SET is_primary = 0 WHERE user_id = ?"
unset_primary(zips, u) ==
    [i \in 1..Len(zips) |->
        IF zips[i].user_id = u THEN [zips[i] EXCEPT !.is_primary = FALSE]
        ELSE zips[i]]

\* Database.add_user_zip_code: INSERT OR REPLACE drops the row holding the
\* key (user_id, zip_code) and inserts the new one.
add_user_zip_code(zips, us, u, z, label, is_primary) ==
    LET cleared == IF is_primary THEN unset_primary(zips, u) ELSE zips
    IN  [user_zip_codes |->
            Append(without_zip(cleared, u, z),
                   [user_id |-> u, zip_code |-> z, is_primary |-> is_primary,
                    label |-> label]),
         users |-> IF is_primary THEN set_user_zip(us, u, z) ELSE us]

\* The rows of the user in table order, with no ORDER BY.
get_user_zip_codes_Unordered(zips, u) ==
    SelectSeq(zips, LAMBDA r : r.user_id = u)

\* Database.get_user_zip_codes: "ORDER BY is_primary DESC, created_at".
get_user_zip_codes(zips, u) ==
    SelectSeq(zips, LAMBDA r : r.user_id = u /\ r.is_primary)
    \o SelectSeq(zips, LAMBDA r : r.user_id = u /\ ~r.is_primary)

\* The removal carried out for any row that is present.
remove_user_zip_code_AnyRow(zips, u, z) ==
    IF ~has_zip(zips, u, z)
    THEN [user_zip_codes |-> zips, result |-> FALSE]
    ELSE [user_zip_codes |-> without_zip(zips, u, z), result |-> TRUE]

\* Database.remove_user_zip_code
remove_user_zip_code(zips, u, z) ==
    IF ~has_zip(zips, u, z)
    THEN [user_zip_codes |-> zips, result |-> FALSE]
    ELSE IF zip_row(zips, u, z).is_primary
    THEN [user_zip_codes |-> zips, result |-> FALSE]
    ELSE [user_zip_codes |-> without_zip(zips, u, z), result |-> TRUE]

\* The new primary flagged without the earlier one being cleared.
set_primary_zip_code_KeepsOthers(zips, us, u, z) ==
    IF ~has_zip(zips, u, z)
    THEN [user_zip_codes |-> zips, users |-> us, result |-> FALSE]
    ELSE [user_zip_codes |->
             [i \in 1..Len(zips) |->
                 IF zips[i].user_id = u /\ zips[i].zip_code = z
                 THEN [zips[i] EXCEPT !.is_primary = TRUE]
                 ELSE zips[i]],
          users |-> set_user_zip(us, u, z), result |-> TRUE]

\* Database.set_primary_zip_code
set_primary_zip_code(zips, us, u, z) ==
    IF ~has_zip(zips, u, z)
    THEN [user_zip_codes |-> zips, users |-> us, result |-> FALSE]
    ELSE [user_zip_codes |->
             [i \in 1..Len(zips) |->
                 IF zips[i].user_id = u
                 THEN [zips[i] EXCEPT !.is_primary = (zips[i].zip_code = z)]
                 ELSE zips[i]],
          users |-> set_user_zip(us, u, z), result |-> TRUE]

\* The migration at the end of _init_database: "INSERT OR IGNORE INTO
\* user_zip_codes ... SELECT id, zip_code, 1, 'Primary' FROM users", one
\* users row after the other from id upwards.
RECURSIVE migrate_zip_codes(_, _, _)
migrate_zip_codes(zips, us, id) ==
    IF id > MaxUsers THEN zips
    ELSE IF id \notin UserIdsOf(us) THEN migrate_zip_codes(zips, us, id + 1)
    ELSE LET r == CHOOSE x \in us : x.id = id
         IN  migrate_zip_codes(
                 IF has_zip(zips, id, r.zip_code) THEN zips
                 ELSE Append(zips, [user_id |-> id, zip_code |-> r.zip_code,
                                    is_primary |-> TRUE, label |-> "Primary"]),
                 us, id + 1)

\* _prepare_walmart_tasks / _prepare_target_tasks: the locations checked
\* for the user of a tracking row, over the rows of the table.
user_zips_of(zips, user) ==
    LET rows == get_user_zip_codes(zips, user.id)
    IN  IF rows = <<>>
        THEN <<[zip_code |-> user.zip_code, is_primary |-> TRUE,
                label |-> "Primary"]>>
        ELSE [i \in 1..Len(rows) |->
                 [zip_code |-> rows[i].zip_code,
                  is_primary |-> rows[i].is_primary, label |-> rows[i].label]]

\* users.primary_store_id, and the store ids of the user's pickup stores
\* (UNIQUE(user_id, store_id)); the first pickup store is the primary one.
PrimaryStore == "1001"
PickupStores == <<"1001", "2002">>

\* The key with no ZIP suffix for any location.
walmart_store_key_NoSuffix(zip_code, user) == <<PrimaryStore>>

\* result.store_id of a Walmart shipping task: the store id handed to
\* check_price, and f"{result.store_id}-{zip_code}" when the ZIP of the task
\* is not user.zip_code. The formatted string is kept as its two parts.
walmart_store_key(zip_code, user) ==
    IF zip_code # user.zip_code THEN <<PrimaryStore, zip_code>>
    ELSE <<PrimaryStore>>

\* The (alert_type, store key) pairs the Walmart tasks of one tracking row
\* of the user hand to _process_result: the shipping tasks, then the
\* pickup tasks.
walmart_keys(zips, user) ==
    LET ctx == user_zips_of(zips, user)
    IN  [i \in 1..Len(ctx) |->
            [alert_type |-> "shipping",
             store_id |-> walmart_store_key(ctx[i].zip_code, user)]]
        \o [k \in 1..Len(PickupStores) |->
            [alert_type |-> "pickup", store_id |-> <<PickupStores[k]>>]]

\* The same for the Target tasks: result.store_id = f"target-{zip_code}".
target_keys(zips, user) ==
    LET ctx == user_zips_of(zips, user)
    IN  [i \in 1..Len(ctx) |->
            [alert_type |-> "shipping",
             store_id |-> <<"target", ctx[i].zip_code>>]]

\* INSERT OR REPLACE without the replacement: the row is added next to the
\* one that holds the key.
add_tracked_product_KeepsOld(rows, id, u, p, th) ==
    rows \cup {[id |-> id, user_id |-> u, product_id |-> p,
                threshold |-> th, is_active |-> TRUE]}

\* Database.add_tracked_product: INSERT OR REPLACE under UNIQUE(user_id,
\* product_id) drops the row of the pair and inserts one with a new id.
add_tracked_product(rows, id, u, p, th) ==
    {r \in rows : ~(r.user_id = u /\ r.product_id = p)}
    \cup {[id |-> id, user_id |-> u, product_id |-> p, threshold |-> th,
           is_active |-> TRUE]}

\* Database.remove_tracked_product: "UPDATE tracked_products SET is_active
\* = 0 WHERE user_id = ? AND id = ?", true when a row matched.
remove_tracked_product(rows, u, id) ==
    [tracked_products |->
        {IF r.user_id = u /\ r.id = id THEN [r EXCEPT !.is_active = FALSE]
         ELSE r : r \in rows},
     result |-> \E r \in rows : r.user_id = u /\ r.id = id]

\* Every joined row, whatever its is_active flag.
get_all_active_tracking_AnyFlag(rows, us) ==
    {r \in rows : \E x \in us : x.id = r.user_id /\ x.notifications_enabled}

\* Database.get_all_active_tracking: tracked_products JOIN users "WHERE
\* tp.is_active = 1 AND u.notifications_enabled = 1".
get_all_active_tracking(rows, us) ==
    {r \in rows : /\ r.is_active
                  /\ \E x \in us : x.id = r.user_id /\ x.notifications_enabled}

\* Database.delete_user: "DELETE FROM users WHERE discord_id = ?", and the
\* cascade over the referencing tables when SQLite enforces foreign keys.
delete_user(us, zips, rows, u) ==
    [users |-> {r \in us : r.id # u},
     user_zip_codes |->
        IF foreign_keys THEN SelectSeq(zips, LAMBDA r : r.user_id # u) ELSE zips,
     tracked_products |->
        IF foreign_keys THEN {r \in rows : r.user_id # u} ELSE rows]

\* ---- the commands, one Database call each
\* Database.create_user (the admin adduser command).
db_create_user(z) ==
    /\ next_user_id <= MaxUsers
    /\ users' = users \cup {[id |-> next_user_id, zip_code |-> z,
                             notifications_enabled |-> TRUE]}
    /\ next_user_id' = next_user_id + 1
    /\ last_db' = DbCall("create_user", next_user_id, z, FALSE, 0, 0, 0,
                         FALSE, TRUE)
    /\ UNCHANGED <<user_zip_codes, tracked_products, next_tracked_id,
                   active_tracking, removed, is_running, runPc, taskRun,
                   taskSite, taskPc, gateVars, target_scraper, last_check,
                   statVars, expandVars, ledgerVars, sendVars, probeVars>>

\* Database.update_user_store
db_update_user_store(u, z) ==
    /\ u \in UserIdsOf(users)
    /\ users' = set_user_zip(users, u, z)
    /\ last_db' = DbCall("update_user_store", u, z, FALSE, 0, 0, 0, TRUE, TRUE)
    /\ UNCHANGED <<next_user_id, user_zip_codes, tracked_products,
                   next_tracked_id, active_tracking, removed, is_running,
                   runPc, taskRun, taskSite, taskPc, gateVars, target_scraper,
                   last_check, statVars, expandVars, ledgerVars, sendVars,
                   probeVars>>

\* Database() is constructed again on the same file (the bot restarts).
db_init_database ==
    /\ user_zip_codes' = migrate_zip_codes(user_zip_codes, users, 1)
    /\ last_db' = DbCall("init_database", 0, "none", FALSE, 0, 0, 0, FALSE, TRUE)
    /\ UNCHANGED <<users, next_user_id, tracked_products, next_tracked_id,
                   active_tracking, removed, is_running, runPc, taskRun,
                   taskSite, taskPc, gateVars, target_scraper, last_check,
                   statVars, expandVars, ledgerVars, sendVars, probeVars>>

\* Database.add_user_zip_code; the zip add command passes no is_primary.
db_add_user_zip_code(u, z, is_primary) ==
    /\ u \in UserIdsOf(users)
    /\ LET r == add_user_zip_code(user_zip_codes, users, u, z, "ZIP", is_primary)
       IN  /\ user_zip_codes' = r.user_zip_codes
           /\ users' = r.users
    /\ last_db' = DbCall("add_user_zip_code", u, z, is_primary, 0, 0, 0,
                         has_zip(user_zip_codes, u, z), TRUE)
    /\ UNCHANGED <<next_user_id, tracked_products, next_tracked_id,
                   active_tracking, removed, is_running, runPc, taskRun,
                   taskSite, taskPc, gateVars, target_scraper, last_check,
                   statVars, expandVars, ledgerVars, sendVars, probeVars>>

\* Database.remove_user_zip_code (the zip remove command).
db_remove_user_zip_code(u, z) ==
    /\ u \in UserIdsOf(users)
    /\ LET r == remove_user_zip_code(user_zip_codes, u, z)
       IN  /\ user_zip_codes' = r.user_zip_codes
           /\ last_db' = DbCall("remove_user_zip_code", u, z, FALSE, 0, 0, 0,
                                has_zip(user_zip_codes, u, z), r.result)
    /\ UNCHANGED <<users, next_user_id, tracked_products, next_tracked_id,
                   active_tracking, removed, is_running, runPc, taskRun,
                   taskSite, taskPc, gateVars, target_scraper, last_check,
                   statVars, expandVars, ledgerVars, sendVars, probeVars>>

\* Database.set_primary_zip_code (the zip set_primary command).
db_set_primary_zip_code(u, z) ==
    /\ u \in UserIdsOf(users)
    /\ LET r == set_primary_zip_code(user_zip_codes, users, u, z)
       IN  /\ user_zip_codes' = r.user_zip_codes
           /\ users' = r.users
           /\ last_db' = DbCall("set_primary_zip_code", u, z, TRUE, 0, 0, 0,
                                has_zip(user_zip_codes, u, z), r.result)
    /\ UNCHANGED <<next_user_id, tracked_products, next_tracked_id,
                   active_tracking, removed, is_running, runPc, taskRun,
                   taskSite, taskPc, gateVars, target_scraper, last_check,
                   statVars, expandVars, ledgerVars, sendVars, probeVars>>

NextZip ==
    \/ \E z \in ZipCodes : db_create_user(z)
    \/ \E u \in 1..MaxUsers, z \in ZipCodes : db_update_user_store(u, z)
    \/ db_init_database
    \/ \E u \in 1..MaxUsers, z \in ZipCodes, is_primary \in BOOLEAN :
          db_add_user_zip_code(u, z, is_primary)
    \/ \E u \in 1..MaxUsers, z \in ZipCodes : db_remove_user_zip_code(u, z)
    \/ \E u \in 1..MaxUsers, z \in ZipCodes : db_set_primary_zip_code(u, z)

SpecZip == Init /\ [][NextZip]_vars

\* Database.delete_user (the admin deleteuser command, once confirmed).
db_delete_user(u) ==
    /\ u \in UserIdsOf(users)
    /\ LET r == delete_user(users, user_zip_codes, tracked_products, u)
       IN  /\ users' = r.users
           /\ user_zip_codes' = r.user_zip_codes
           /\ tracked_products' = r.tracked_products
    /\ last_db' = DbCall("delete_user", u, "none", FALSE, 0, 0, 0, TRUE, TRUE)
    /\ UNCHANGED <<next_user_id, next_tracked_id, active_tracking, removed,
                   is_running, runPc, taskRun, taskSite, taskPc, gateVars,
                   target_scraper, last_check, statVars, expandVars,
                   ledgerVars, sendVars, probeVars>>

\* Database.add_tracked_product (the track command); returns lastrowid.
db_add_tracked_product(u, p, th) ==
    /\ u \in UserIdsOf(users)
    /\ next_tracked_id <= MaxTrackedIds
    /\ tracked_products' =
          add_tracked_product(tracked_products, next_tracked_id, u, p, th)
    /\ next_tracked_id' = next_tracked_id + 1
    /\ removed' = removed \ {<<u, p>>}
    /\ last_db' = DbCall("add_tracked_product", u, "none", FALSE, p,
                         next_tracked_id, th,
                         \E r \in tracked_products :
                            r.user_id = u /\ r.product_id = p,
                         TRUE)
    /\ UNCHANGED <<users, next_user_id, user_zip_codes, active_tracking,
                   is_running, runPc, taskRun, taskSite, taskPc, gateVars,
                   target_scraper, last_check, statVars, expandVars,
                   ledgerVars, sendVars, probeVars>>

\* Database.remove_tracked_product (the untrack command).
db_remove_tracked_product(u, id) ==
    /\ u \in UserIdsOf(users)
    /\ LET r == remove_tracked_product(tracked_products, u, id)
       IN  /\ tracked_products' = r.tracked_products
           /\ removed' =
                 IF r.result
                 THEN removed \cup {<<x.user_id, x.product_id>> :
                         x \in {y \in tracked_products :
                                   y.user_id = u /\ y.id = id}}
                 ELSE removed
           /\ last_db' = DbCall("remove_tracked_product", u, "none", FALSE, 0,
                                id, 0, r.result, r.result)
    /\ UNCHANGED <<users, next_user_id, user_zip_codes, next_tracked_id,
                   active_tracking, is_running, runPc, taskRun, taskSite,
                   taskPc, gateVars, target_scraper, last_check, statVars,
                   expandVars, ledgerVars, sendVars, probeVars>>

\* _run_price_checks begins: "tracking_data = self.db.get_all_active_tracking()",
\* the rows the run probes and may notify about.
run_loads_tracking ==
    /\ active_tracking' = get_all_active_tracking(tracked_products, users)
    /\ last_db' = DbCall("get_all_active_tracking", 0, "none", FALSE, 0, 0, 0,
                         FALSE, TRUE)
    /\ UNCHANGED <<users, next_user_id, user_zip_codes, tracked_products,
                   next_tracked_id, removed, is_running, runPc, taskRun,
                   taskSite, taskPc, gateVars, target_scraper, last_check,
                   statVars, expandVars, ledgerVars, sendVars, probeVars>>

NextTrack ==
    \/ \E z \in ZipCodes : db_create_user(z)
    \/ db_init_database
    \/ \E u \in 1..MaxUsers : db_delete_user(u)
    \/ \E u \in 1..MaxUsers, p \in Products, th \in Thresholds :
          db_add_tracked_product(u, p, th)
    \/ \E u \in 1..MaxUsers, id \in 1..MaxTrackedIds :
          db_remove_tracked_product(u, id)
    \/ run_loads_tracking

SpecTrack == Init /\ [][NextTrack]_vars

\* ----------------------------------------------------------- the probes
\* BaseScraper.__init__(max_retries = 3); both scrapers are constructed
\* without arguments.
max_retries == 3

\* check_price is called. WalmartScraper returns an error result at once
\* when it has no API key; TargetLocationScraper first awaits initialize().
check_price(site) ==
    /\ probe.pc \in {"idle", "returned", "raised"}
    /\ probes < MaxProbes
    /\ probes' = probes + 1
    /\ probe' = IF site = "walmart"
                THEN IF api_key
                     THEN [site |-> site, pc |-> "attempt", attempt |-> 0,
                           result |-> FailedResult]
                     ELSE [site |-> site, pc |-> "returned", attempt |-> 0,
                           result |-> FailedResult]
                ELSE [site |-> site, pc |-> "initialize", attempt |-> 0,
                      result |-> FailedResult]
    /\ UNCHANGED <<api_key, browser, is_running, runPc, taskRun, taskSite,
                   taskPc, gateVars, target_scraper, last_check, statVars,
                   expandVars, ledgerVars, sendVars, storeVars>>

\* TargetLocationScraper.initialize, awaited by check_price ahead of its
\* try: a no-op when the browser is up, else the Playwright launch, which
\* sets _browser or raises out of check_price.
check_price_initialize(launched) ==
    /\ probe.pc = "initialize"
    /\ IF browser \/ launched
       THEN /\ browser' = TRUE
            /\ probe' = [probe EXCEPT !.pc = "attempt"]
       ELSE /\ probe' = [probe EXCEPT !.pc = "raised"]
            /\ UNCHANGED browser
    /\ UNCHANGED <<api_key, probes, is_running, runPc, taskRun, taskSite,
                   taskPc, gateVars, target_scraper, last_check, statVars,
                   expandVars, ledgerVars, sendVars, storeVars>>

\* An attempt of "for attempt in range(self.max_retries)" ends with return:
\* the parsed result of the page.
check_price_attempt_returns(res) ==
    /\ probe.pc = "attempt"
    /\ probe.attempt < max_retries
    /\ probe' = [probe EXCEPT !.pc = "returned", !.attempt = @ + 1,
                              !.result = res]
    /\ UNCHANGED <<api_key, browser, probes, is_running, runPc, taskRun,
                   taskSite, taskPc, gateVars, target_scraper, last_check,
                   statVars, expandVars, ledgerVars, sendVars, storeVars>>

\* An attempt fails (an exception caught by the except clauses, or a
\* response that is not 200) and the loop goes on.
check_price_attempt_fails ==
    /\ probe.pc = "attempt"
    /\ probe.attempt < max_retries
    /\ probe' = [probe EXCEPT !.attempt = @ + 1]
    /\ UNCHANGED <<api_key, browser, probes, is_running, runPc, taskRun,
                   taskSite, taskPc, gateVars, target_scraper, last_check,
                   statVars, expandVars, ledgerVars, sendVars, storeVars>>

\* The loop is over: "Failed after all retries".
check_price_exhausted ==
    /\ probe.pc = "attempt"
    /\ probe.attempt = max_retries
    /\ probe' = [probe EXCEPT !.pc = "returned", !.result = FailedResult]
    /\ UNCHANGED <<api_key, browser, probes, is_running, runPc, taskRun,
                   taskSite, taskPc, gateVars, target_scraper, last_check,
                   statVars, expandVars, ledgerVars, sendVars, storeVars>>

\* The environment decides whether SCRAPEOPS_API_KEY is set.
InitProbe ==
    /\ is_running = FALSE
    /\ runPc = [r \in Runs |-> "idle"]
    /\ taskRun = [t \in TaskIds |-> Scheduled]
    /\ taskSite = [t \in TaskIds |-> "walmart"]
    /\ taskPc = [t \in TaskIds |-> "free"]
    /\ walmart_semaphore = MaxConcurrentWalmart
    /\ target_semaphore = MaxConcurrentTarget
    /\ target_scraper = "none"
    /\ concurrent_active = 0
    /\ max_concurrent_used = 0
    /\ checks_completed = 0
    /\ checks_failed = 0
    /\ alerts_sent = 0
    /\ last_check = FALSE
    /\ price_history = <<>>
    /\ alert_states = [a \in AlertTypes |-> NoRow]
    /\ alert_history = <<>>
    /\ now = 0
    /\ pending = [c \in Callers |-> NoDecision]
    /\ last_call = NoCall
    /\ sending = NoSend
    /\ last_op = NoOp
    /\ tracking_data = <<>>
    /\ expanded = 0
    /\ walmart_tasks = <<>>
    /\ target_tasks = <<>>
    /\ StoreEmpty
    /\ api_key \in BOOLEAN
    /\ ProbeIdle

NextProbe ==
    \/ \E site \in Sites : check_price(site)
    \/ \E launched \in BOOLEAN : check_price_initialize(launched)
    \/ \E res \in ProbeResults : check_price_attempt_returns(res)
    \/ check_price_attempt_fails
    \/ check_price_exhausted

SpecProbe == InitProbe /\ [][NextProbe]_vars

\* ------------------------------------------------------------------ C1
InFlight(site) == {t \in TaskIds : taskPc[t] = "probe" /\ taskSite[t] = site}

\* C1: the number of Walmart probes in flight never exceeds
\* MAX_CONCURRENT_WALMART and the number of Target probes in flight never
\* exceeds MAX_CONCURRENT_TARGET, for any number of tasks.
C1_ConcurrencyBound ==
    /\ Cardinality(InFlight("walmart")) <= MaxConcurrentWalmart
    /\ Cardinality(InFlight("target")) <= MaxConcurrentTarget

\* Both gates are full while further tasks of each retailer wait for a slot.
C1_Witness ==
    /\ Cardinality(InFlight("walmart")) = MaxConcurrentWalmart
    /\ \E t \in TaskIds : taskPc[t] = "wait" /\ taskSite[t] = "walmart"

\* ------------------------------------------------------------------ C2
\* C2: at most one execution of _run_price_checks is active at any time,
\* whichever entry point started it (violated: force_price_check never sets
\* is_running, so a tick or a second command starts a run during a manual one).
C2_SingleRun == Cardinality(ActiveRuns) <= 1

\* ------------------------------------------------------------------ C3
\* C3: two evaluations of the same tuple at the same price at or below the
\* threshold, with no reset between them and within one cooldown window,
\* never both end in a decision to send: the read in should_send_alert and
\* the write in record_alert_sent act as one step. Stated for a ledger that
\* has never been written, where the first evaluation alone may send.
C3_AtomicReadModifyWrite ==
    ~ \E c, d \in Callers :
        /\ c # d
        /\ pending[c] # NoDecision
        /\ pending[d] # NoDecision
        /\ pending[c].alert_type = pending[d].alert_type
        /\ pending[c].price = pending[d].price
        /\ ~pending[c].reset
        /\ ~pending[d].reset
        /\ alert_history = <<>>
        /\ now <= CooldownHours

\* ------------------------------------------------------------------ C4
\* C4: once _process_result has handled an observation whose price is
\* strictly above the threshold, no notification has gone out for it and
\* the tuple has no AlertState row, whether or not it had one before.
C4_AboveThresholdClears ==
    (last_op.op = "process_result" /\ last_op.price > Threshold)
        => /\ ~last_op.dispatched
           /\ alert_states[last_op.alert_type] = NoRow

\* ------------------------------------------------------------------ C5
\* C5: for a tuple without an AlertState row, processing an observation at
\* or below the threshold whose relevant availability flag is true
\* dispatches a notification (on whose delivery the AlertHistory row and
\* AlertState (p, now) follow).
C5_FirstAlert ==
    [][(/\ last_op'.op = "process_result"
        /\ alert_states[last_op'.alert_type] = NoRow
        /\ last_op'.price <= Threshold
        /\ availability(last_op'.alert_type, last_op'))
       => last_op'.dispatched]_vars

\* ------------------------------------------------------------------ C6
\* C6: for a tuple in ALERTED(p, t), processing an observation of the same
\* price p at or below the threshold (relevant flag true) dispatches a
\* notification exactly when more than 24 hours have passed since t, and
\* otherwise leaves AlertState as it is.
C6_CooldownLaw ==
    [][(/\ last_op'.op = "process_result"
        /\ alert_states[last_op'.alert_type] # NoRow
        /\ last_op'.price = alert_states[last_op'.alert_type].price
        /\ last_op'.price <= Threshold
        /\ availability(last_op'.alert_type, last_op'))
       => /\ last_op'.dispatched
                = (now - alert_states[last_op'.alert_type].at > CooldownHours)
          /\ (now - alert_states[last_op'.alert_type].at <= CooldownHours
                => alert_states' = alert_states)]_vars

\* ------------------------------------------------------------------ C7
\* C7: with prices in integer cents, should_send_alert on a tuple with a
\* row and a price at or below the threshold answers SEND when the price
\* is 2 cents or more away from last_alert_price, and answers SUPPRESS when
\* it is at most 1 cent away and the cooldown has not elapsed.
C7_PriceChangeLaw ==
    (/\ last_call # NoCall
     /\ last_call.row # NoRow
     /\ last_call.price <= Threshold)
        => /\ (Abs(last_call.price - last_call.row.price) >= 2
                 => last_call.result)
           /\ (/\ Abs(last_call.price - last_call.row.price) <= 1
               /\ last_call.at - last_call.row.at <= CooldownHours
                 => ~last_call.result)

\* ------------------------------------------------------------------ C8
\* C8: when an observation above the threshold has been processed for a
\* tuple and the next one processed for it is at or below the threshold
\* with its relevant flag true, the second dispatches a notification,
\* whatever AlertState held before and however little time has passed.
C8_ResetThenReAlert ==
    [][(/\ last_op.op = "process_result"
        /\ last_op.price > Threshold
        /\ last_op'.op = "process_result"
        /\ last_op'.alert_type = last_op.alert_type
        /\ last_op'.price <= Threshold
        /\ availability(last_op'.alert_type, last_op'))
       => last_op'.dispatched]_vars

\* ------------------------------------------------------------------ C9
\* C9: a notification _send_alert has handed to the channel is for an
\* observation whose relevant availability flag is true, and a call with
\* the relevant flag false dispatches nothing.
C9_AvailabilityGate ==
    /\ sending # NoSend => availability(sending.alert_type, sending)
    /\ (last_op.op = "send_alert" /\ ~availability(last_op.alert_type, last_op))
          => (~last_op.dispatched /\ sending = NoSend)

C9_Witness ==
    /\ last_op.op = "send_alert"
    /\ last_op.dispatched
    /\ sending.alert_type = "pickup"
    /\ sending.pickup_available
    /\ ~sending.shipping_available

C12_HistoryMatchesAlertsSent ==
    Len(alert_history) = alerts_sent

\* ----------------------------------------------------------------- C17
\* C17: when every awaited call returns or raises and the semaphores are
\* fair, every task that has been created settles, every run that waits
\* for its tasks finishes, and is_running returns to false.
C17_EveryRunFinishes ==
    /\ \A t \in TaskIds : []<>(taskPc[t] \notin {"new", "init", "wait", "probe"})
    /\ \A r \in Runs : []<>(runPc[r] # "gather")
    /\ []<>(~is_running)

C17_Witness ==
    /\ is_running
    /\ target_semaphore = 0
    /\ \E t \in TaskIds :
          taskPc[t] = "wait" /\ taskSite[t] = "target" /\ taskRun[t] = Scheduled

\* ----------------------------------------------------------------- C13
\* C13: a task that settles increments exactly one of checks_completed and
\* checks_failed, exactly once, so that after N tasks from zeroed counters
\* checks_completed + checks_failed = N.
C13_OneCounterPerTask ==
    [][\A t \in TaskIds :
         (taskPc[t] = "probe" /\ taskPc'[t] \in Settled)
            => checks_completed' + checks_failed'
                  = checks_completed + checks_failed + 1]_vars

\* ----------------------------------------------------------------- C14
\* C14: a fault raised inside a task is caught by the task and counted:
\* a task that ends by a fault has incremented checks_failed by one, and
\* the run still finishes.
C14_EveryFaultCounted ==
    [][\A t \in TaskIds :
         (taskPc[t] # "raised" /\ taskPc'[t] = "raised")
            => checks_failed' = checks_failed + 1]_vars

\* ----------------------------------------------------------------- C15
\* C15: once every task has settled, both semaphores are back at their
\* full capacity and concurrent_active is 0.
C15_SlotsReleased ==
    (\A t \in TaskIds : taskPc[t] \in {"free", "gone"} \cup Settled)
        => /\ walmart_semaphore = MaxConcurrentWalmart
           /\ target_semaphore = MaxConcurrentTarget
           /\ concurrent_active = 0

\* ----------------------------------------------------------------- C16
\* C16: while a run is in progress max_concurrent_used never decreases; it
\* is always at least concurrent_active and at most the sum of the two
\* limits.
C16_HighWaterMark ==
    [][/\ max_concurrent_used' >= concurrent_active'
       /\ max_concurrent_used' <= MaxConcurrentWalmart + MaxConcurrentTarget
       /\ (\E r \in Runs : runPc[r] = "gather" /\ runPc'[r] = "gather")
             => max_concurrent_used' >= max_concurrent_used]_vars

\* ----------------------------------------------------------------- C18
\* C18: whenever the loop body is not executing, is_running is false, also
\* after an iteration that ended by an exception: the next timer tick
\* starts a run.
C18_SchedulerSurvives ==
    runPc[Scheduled] \in {"idle", "failed"} => ~is_running

C18_Witness ==
    /\ runPc[Scheduled] = "failed"
    /\ ~is_running
    /\ FreeTasks # {}
    /\ last_check

TasksFor(tasks, req, type, place) ==
    Cardinality({k \in 1..Len(tasks) :
        /\ tasks[k].data = req
        /\ tasks[k].type = type
        /\ tasks[k].place = place})

Contexts(data) == IF data.zips = 0 THEN {0} ELSE 1..data.zips

\* C20: for every tracking row handled, a Walmart product has exactly one
\* shipping task per location context of the user (the configured ZIP
\* codes, or the primary one alone when none is configured) and exactly one
\* pickup task per pickup store; a Target product has exactly one shipping
\* task per location context and no pickup task, so no Target task asks
\* for a pickup alert.
C20_TaskExpansion ==
    /\ \A req \in 1..expanded :
          LET data == tracking_data[req]
          IN  IF data.site = "walmart"
              THEN /\ \A z \in 0..MaxZips :
                         TasksFor(walmart_tasks, req, "walmart_shipping", z)
                            = IF z \in Contexts(data) THEN 1 ELSE 0
                   /\ \A st \in 1..MaxStores :
                         TasksFor(walmart_tasks, req, "walmart_pickup", st)
                            = IF st <= data.pickup_stores THEN 1 ELSE 0
                   /\ \A k \in 1..Len(target_tasks) : target_tasks[k].data # req
              ELSE /\ \A z \in 0..MaxZips :
                         TasksFor(target_tasks, req, "target_shipping", z)
                            = IF z \in Contexts(data) THEN 1 ELSE 0
                   /\ \A k \in 1..Len(walmart_tasks) : walmart_tasks[k].data # req
    /\ \A k \in 1..Len(target_tasks) : alert_type_of(target_tasks[k]) = "shipping"
    /\ Len(walmart_tasks) + Len(target_tasks)
          = Cardinality({<<req, z>> \in (1..expanded) \X (0..MaxZips) :
                             z \in Contexts(tracking_data[req])})
            + Cardinality({<<req, st>> \in (1..expanded) \X (1..MaxStores) :
                             /\ tracking_data[req].site = "walmart"
                             /\ st <= tracking_data[req].pickup_stores})

C20_Witness ==
    /\ expanded = 2
    /\ tracking_data[1] = [site |-> "walmart", zips |-> 0, pickup_stores |-> 1]
    /\ tracking_data[2] = [site |-> "target", zips |-> 2, pickup_stores |-> 1]
    /\ Len(walmart_tasks) = 2
    /\ Len(target_tasks) = 2

\* ----------------------------------------------------------------- C21
\* The user_zip_codes rows of a user, as a set.
ZipRowsOf(u) ==
    {user_zip_codes[i] : i \in {k \in 1..Len(user_zip_codes) :
                                   user_zip_codes[k].user_id = u}}
PrimaryRowsOf(u) == {r \in ZipRowsOf(u) : r.is_primary}

\* C21: a user with no configured ZIP context is checked at exactly one
\* location, built from the ZIP of the users row, labelled 'Primary' and
\* flagged primary; a user with configured contexts is checked at every one
\* of them, each once, the primary ones before any other.
C21_LocationResolution ==
    \A user \in users :
        LET ctx == user_zips_of(user_zip_codes, user)
        IN  IF ZipRowsOf(user.id) = {}
            THEN ctx = <<[zip_code |-> user.zip_code, is_primary |-> TRUE,
                          label |-> "Primary"]>>
            ELSE /\ Len(ctx) = Cardinality(ZipRowsOf(user.id))
                 /\ {ctx[i].zip_code : i \in 1..Len(ctx)}
                       = {r.zip_code : r \in ZipRowsOf(user.id)}
                 /\ \A i \in 1..Len(ctx) :
                       \E r \in ZipRowsOf(user.id) :
                          /\ r.zip_code = ctx[i].zip_code
                          /\ r.is_primary = ctx[i].is_primary
                          /\ r.label = ctx[i].label
                 /\ \A i, j \in 1..Len(ctx) :
                       i < j /\ ctx[j].is_primary => ctx[i].is_primary

\* A user whose table rows hold a non-primary context ahead of the primary.
C21_Witness ==
    \E user \in users :
        /\ Cardinality(ZipRowsOf(user.id)) = 2
        /\ \E i, j \in 1..Len(user_zip_codes) :
              /\ i < j
              /\ user_zip_codes[i].user_id = user.id
              /\ user_zip_codes[j].user_id = user.id
              /\ ~user_zip_codes[i].is_primary
              /\ user_zip_codes[j].is_primary

\* ----------------------------------------------------------------- C22
\* C22: every user who has at least one ZIP context has exactly one primary
\* context, after any sequence of create_user, add_user_zip_code,
\* remove_user_zip_code, set_primary_zip_code, update_user_store and
\* re-initialisation of the database.
C22_ExactlyOnePrimary ==
    \A user \in users :
        ZipRowsOf(user.id) # {} => Cardinality(PrimaryRowsOf(user.id)) = 1

\* ----------------------------------------------------------------- C23
\* C23: the rows a run loads when it starts hold no tracking request whose
\* removal has returned true and which has not been added again since, so
\* that run probes and notifies for none of them.
C23_RemovedNotChecked ==
    [][last_db'.op = "get_all_active_tracking" =>
        \A r \in active_tracking' :
            /\ <<r.user_id, r.product_id>> \notin removed
            /\ r \in tracked_products /\ r.is_active]_vars

\* A run has started while one request stands removed and another is active.
C23_Witness ==
    /\ last_db.op = "get_all_active_tracking"
    /\ removed # {}
    /\ active_tracking # {}

\* ----------------------------------------------------------------- C24
\* C24: tracked_products holds at most one row per (user, product);
\* remove_tracked_product clears the active flag of the matching row and
\* deletes none; add_tracked_product leaves exactly one row for the pair,
\* active and with the threshold given.
C24_SoftDeactivation ==
    [][/\ \A r1, r2 \in tracked_products' :
             r1.user_id = r2.user_id /\ r1.product_id = r2.product_id
                => r1 = r2
       /\ last_db'.op = "remove_tracked_product" =>
             /\ {r.id : r \in tracked_products'} = {r.id : r \in tracked_products}
             /\ \A r \in tracked_products :
                   IF r.user_id = last_db'.user_id /\ r.id = last_db'.id
                   THEN [r EXCEPT !.is_active = FALSE] \in tracked_products'
                   ELSE r \in tracked_products'
       /\ last_db'.op = "add_tracked_product" =>
             LET rows == {r \in tracked_products' :
                             /\ r.user_id = last_db'.user_id
                             /\ r.product_id = last_db'.product_id}
             IN  /\ Cardinality(rows) = 1
                 /\ \A r \in rows : r.is_active /\ r.threshold = last_db'.threshold
      ]_vars

\* A removed request has been added again with the other threshold.
C24_Witness ==
    /\ last_db.op = "add_tracked_product"
    /\ last_db.found
    /\ last_db.threshold = 4000
    /\ \E r \in tracked_products :
          /\ r.id = last_db.id /\ r.id > 1
          /\ r.is_active /\ r.threshold = 4000

\* ----------------------------------------------------------------- C25
\* C25: price_history only grows: processing an observation with no error
\* and a price appends exactly one row carrying its price and availability
\* flags; processing any other observation, and every other operation,
\* leaves the rows as they are.
C25_PriceHistoryAppendOnly ==
    [][IF last_op'.op = "process_result" /\ ~last_op'.error
          /\ last_op'.price # NoPrice
       THEN price_history' =
               Append(price_history,
                      PriceResult(FALSE, last_op'.price,
                                  last_op'.shipping_available,
                                  last_op'.pickup_available))
       ELSE price_history' = price_history]_vars

\* A priced observation has been logged and one without a price processed
\* after it.
C25_Witness ==
    /\ last_op.op = "process_result"
    /\ ~last_op.error /\ last_op.price = NoPrice
    /\ Len(price_history) = 1

\* ----------------------------------------------------------------- C26
\* C26: processing an observation that carries an error adds one to
\* checks_failed and changes nothing else: checks_completed, price_history,
\* alert_states, alert_history and alerts_sent stay, and no notification is
\* handed to the channel.
C26_ErrorCountsOnce ==
    [][last_op'.op = "process_result" /\ last_op'.error =>
          /\ checks_failed' = checks_failed + 1
          /\ UNCHANGED <<checks_completed, price_history, alert_states,
                         alert_history, alerts_sent, sending>>]_vars

\* An error observation processed after a priced one.
C26_Witness ==
    /\ last_op.op = "process_result"
    /\ last_op.error
    /\ checks_completed = 1
    /\ Len(price_history) = 1

\* ----------------------------------------------------------------- C27
\* C27: a check_price call makes at most max_retries attempts and ends by
\* returning an observation; it never raises to its caller, whatever fails
\* on an attempt or during the launch of the browser.
C27_ProbeNeverRaises ==
    /\ probe.attempt <= max_retries
    /\ probe.pc # "raised"
    /\ probe.pc = "returned" =>
          probe.result \in ProbeResults \cup {FailedResult}

\* ----------------------------------------------------------------- C28
\* C28: record_alert_sent applies the alert_history append and the
\* alert_states upsert together or not at all: a step appends a history row
\* exactly when it writes that row's price and the current time into the
\* state of its tuple, and a call that fails leaves both tables as they
\* were, the other tuples untouched.
C28_RecordIsAtomic ==
    [][/\ alert_history' # alert_history =>
             /\ Len(alert_history') = Len(alert_history) + 1
             /\ SubSeq(alert_history', 1, Len(alert_history)) = alert_history
             /\ LET row == alert_history'[Len(alert_history')]
                IN  /\ alert_states'[row.alert_type]
                          = [price |-> row.price, at |-> now]
                    /\ \A a \in AlertTypes \ {row.alert_type} :
                          alert_states'[a] = alert_states[a]
       /\ last_call'.alert_type = "failed" =>
             alert_states' = alert_states /\ alert_history' = alert_history
      ]_vars

\* A call has failed while the ledger held the state of an earlier alert.
C28_Witness ==
    /\ last_call.alert_type = "failed"
    /\ \E a \in AlertTypes : alert_states[a] # NoRow
    /\ pending = [c \in Callers |-> NoDecision]

\* ----------------------------------------------------------------- C29
\* C29: once delete_user has removed a user, no row of tracked_products or
\* user_zip_codes names that user: every row of the two tables belongs to a
\* user of the users table.
C29_DeleteCascades ==
    /\ \A r \in tracked_products : r.user_id \in UserIdsOf(users)
    /\ \A i \in 1..Len(user_zip_codes) :
          user_zip_codes[i].user_id \in UserIdsOf(users)

\* ----------------------------------------------------------------- C30
\* C30: remove_user_zip_code given a ZIP the user does not have, or the
\* user's primary ZIP, returns false and leaves the tables as they were;
\* given a non-primary ZIP of the user it returns true and deletes that
\* row and no other, the remaining rows unchanged and in their order.
C30_RemoveRefusesPrimary ==
    [][last_db'.op = "remove_user_zip_code" =>
        LET u == last_db'.user_id
            z == last_db'.zip_code
        IN  /\ users' = users
            /\ IF has_zip(user_zip_codes, u, z)
                  /\ ~zip_row(user_zip_codes, u, z).is_primary
               THEN /\ last_db'.result
                    /\ user_zip_codes' =
                          SelectSeq(user_zip_codes,
                                    LAMBDA r : r # zip_row(user_zip_codes, u, z))
               ELSE /\ ~last_db'.result
                    /\ user_zip_codes' = user_zip_codes]_vars

\* The command was refused for the primary ZIP of a user who has another.
C30_Witness ==
    /\ last_db.op = "remove_user_zip_code"
    /\ ~last_db.result
    /\ has_zip(user_zip_codes, last_db.user_id, last_db.zip_code)
    /\ zip_row(user_zip_codes, last_db.user_id, last_db.zip_code).is_primary
    /\ Cardinality(ZipRowsOf(last_db.user_id)) = 2

\* ----------------------------------------------------------------- C31
\* C31: set_primary_zip_code given a ZIP that is not one of the user's
\* contexts returns false and leaves both tables as they were; given one
\* of them it returns true, that context is then the user's only primary
\* one, users.zip_code of the user is that ZIP, the rows keep their keys,
\* labels and order, and the rows and users.zip_code of other users stay.
C31_SetPrimary ==
    [][last_db'.op = "set_primary_zip_code" =>
        LET u == last_db'.user_id
            z == last_db'.zip_code
        IN  IF ~has_zip(user_zip_codes, u, z)
            THEN /\ ~last_db'.result
                 /\ user_zip_codes' = user_zip_codes
                 /\ users' = users
            ELSE /\ last_db'.result
                 /\ Len(user_zip_codes') = Len(user_zip_codes)
                 /\ \A i \in 1..Len(user_zip_codes) :
                       LET old == user_zip_codes[i]
                           new == user_zip_codes'[i]
                       IN  IF old.user_id = u
                           THEN new = [old EXCEPT
                                          !.is_primary = (old.zip_code = z)]
                           ELSE new = old
                 /\ UserIdsOf(users') = UserIdsOf(users)
                 /\ \A x \in users' :
                       IF x.id = u THEN x.zip_code = z ELSE x \in users]_vars

\* The primary flag has moved from one context of a user to another.
C31_Witness ==
    /\ last_db.op = "set_primary_zip_code"
    /\ last_db.result
    /\ Cardinality(ZipRowsOf(last_db.user_id)) = 2
    /\ PrimaryRowsOf(last_db.user_id)
          = {r \in ZipRowsOf(last_db.user_id) : r.zip_code = last_db.zip_code}
    /\ \E r \in ZipRowsOf(last_db.user_id) : r.label = "Primary" /\ ~r.is_primary

\* ----------------------------------------------------------------- C32
\* C32: the tasks a run builds for one tracking row hand pairwise distinct
\* (alert_type, store key) pairs to _process_result, for a Walmart product
\* and for a Target product, whatever ZIP contexts the user has.
C32_DistinctTuples ==
    \A user \in users :
        LET w == walmart_keys(user_zip_codes, user)
            t == target_keys(user_zip_codes, user)
        IN  /\ \A i, j \in 1..Len(w) : w[i] = w[j] => i = j
            /\ \A i, j \in 1..Len(t) : t[i] = t[j] => i = j

\* A user with two ZIP contexts, one of them the ZIP of the users row.
C32_Witness ==
    \E user \in users :
        /\ Cardinality(ZipRowsOf(user.id)) = 2
        /\ \E r \in ZipRowsOf(user.id) : r.zip_code = user.zip_code

\* ----------------------------------------------------------------- C33
\* C33: for every user with at least one configured ZIP context, the ZIP of
\* the users row is among the locations expanded into shipping tasks.
C33_PrimaryZipChecked ==
    \A user \in users :
        ZipRowsOf(user.id) # {} =>
            LET ctx == user_zips_of(user_zip_codes, user)
            IN  \E i \in 1..Len(ctx) : ctx[i].zip_code = user.zip_code

\* ----------------------------------------------------------------- C34
\* Tasks inside "async with semaphore", between the increment of
\* concurrent_active and the decrement of the finally clause.
HoldingSlot == {t \in TaskIds : taskPc[t] = "probe"}

\* C34: concurrent_active is never negative and equals the number of tasks
\* that hold a gate slot.
C34_ConcurrentActiveExact ==
    /\ concurrent_active >= 0
    /\ concurrent_active = Cardinality(HoldingSlot)

\* ----------------------------------------------------------------- C35
\* Tasks inside the launch of TargetLocationScraper.initialize: the task
\* that created the scraper and awaits initialize(), and a task whose
\* check_price awaits initialize() while _browser is still None.
Launching ==
    {t \in TaskIds :
        \/ taskPc[t] = "init"
        \/ taskPc[t] = "probe" /\ taskSite[t] = "target"
           /\ target_scraper = "created"}

\* C35: the Target browser is launched at most once: no two tasks are
\* inside the launch together, and a launch that has completed is not
\* followed by another.
C35_SingleLaunch ==
    /\ Cardinality(Launching) <= 1
    /\ target_scraper = "ready" => \A t \in TaskIds : taskPc[t] # "init"

\* ----------------------------------------------------------------- C36
\* C36: checks_completed, checks_failed and alerts_sent never decrease, and
\* the start of a run leaves them as they are while it sets
\* concurrent_active and max_concurrent_used to 0.
C36_CumulativeCounters ==
    [][/\ checks_completed' >= checks_completed
       /\ checks_failed' >= checks_failed
       /\ alerts_sent' >= alerts_sent
       /\ (\E r \in Runs : runPc[r] # "gather" /\ runPc'[r] = "gather")
             => /\ checks_completed' = checks_completed
                /\ checks_failed' = checks_failed
                /\ alerts_sent' = alerts_sent
                /\ concurrent_active' = 0
                /\ max_concurrent_used' = 0]_vars

\* A second run has started after a run whose check was counted.
C36_Witness ==
    /\ last_check
    /\ checks_completed + checks_failed >= 1
    /\ \E r \in Runs : runPc[r] = "gather"
    /\ \E t \in TaskIds : taskPc[t] = "gone"
    /\ \A t \in TaskIds : taskPc[t] \in {"gone", "wait", "new"}

\* ----------------------------------------------------------------- C37
\* C37: every alert_states row has an alert_history row of the same tuple
\* and price.
C37_StateHasHistory ==
    \A a \in AlertTypes :
        alert_states[a] # NoRow =>
            \E i \in 1..Len(alert_history) :
                /\ alert_history[i].alert_type = a
                /\ alert_history[i].price = alert_states[a].price

\* A state row written by a recorded alert outlives a failed later call.
C37_Witness ==
    /\ \E a \in AlertTypes : alert_states[a] # NoRow
    /\ Len(alert_history) = 1
    /\ last_call.alert_type = "failed"

\* ----------------------------------------------------------------- C38
\* C38: whenever a user has a primary ZIP context, its ZIP equals
\* users.zip_code of that user.
C38_ZipFieldAgrees ==
    \A user \in users :
        \A r \in PrimaryRowsOf(user.id) : r.zip_code = user.zip_code

====
